---- MODULE Spec2Model ----
(***************************************************************************)
(* Workflow / approval state machine of eos-backend (apps/workflows) and   *)
(* its audit trail (apps/audit).                                           *)
(*                                                                         *)
(* The database tables are the variables instances, history, requests,     *)
(* responses, notifications, entityStatus, auditLog, budgetChangeLog and   *)
(* is_default (the one column of the catalog that the API writes here).    *)
(* Row ids are the                                                         *)
(* positions in the sequences, so creation order is the order of the rows. *)
(* Nothing reads the order of responses and notifications: they are kept   *)
(* as a set and a bag.                                                     *)
(* Every request handler (a thread serving one API call) is a process of   *)
(* Procs.  Views run outside any transaction, so each ORM statement of a   *)
(* view commits on its own and a handler is a sequence of steps (pc);      *)
(* the Python objects a handler loaded are its private copies (loc).       *)
(* Functions decorated with transaction.atomic commit their writes in one  *)
(* step.                                                                   *)
(***************************************************************************)
EXTENDS Integers, Sequences, FiniteSets, Bags, TLC

VARIABLES
    instances,      \* WorkflowInstance rows
    history,        \* WorkflowHistory rows
    requests,       \* ApprovalRequest rows
    responses,      \* ApprovalResponse rows (a set: one per request and user)
    notifications,  \* WorkflowNotification rows (a bag)
    entityStatus,   \* status field of the owning entities
    auditLog,       \* AuditLog rows
    budgetChangeLog, \* BudgetChangeLog rows
    is_default,     \* is_default column of the WorkflowDefinition rows
    pc,             \* position of each request handler
    loc,            \* local Python objects of each request handler
    lastCall        \* the call that returned last, and what it returned

vars == <<instances, history, requests, responses, notifications,
          entityStatus, auditLog, budgetChangeLog, is_default,
          pc, loc, lastCall>>

db == <<instances, history, requests, responses, notifications,
        entityStatus, auditLog, budgetChangeLog, is_default>>

----------------------------------------------------------------------------
(* Bounds of the model *)

\* rows of the tables instances, history, requests and responses together
MaxRows == 7

Procs == {"h1", "h2"}

Null == "null"
NoId == 0

----------------------------------------------------------------------------
(* Users and groups (django.contrib.auth) *)

Users == {"alice", "bob", "root"}

is_superuser(u) == u = "root"

user_groups(u) == IF u = "alice" THEN {"managers"} ELSE {}

----------------------------------------------------------------------------
(* Catalog: workflow definitions, states and transitions (read-only here) *)

WorkflowDefinition ==
    [ plan_approval |-> [tenant |-> "acme", entity_type |-> "project",
                         is_active |-> TRUE, is_default |-> TRUE],
      plan_legacy   |-> [tenant |-> "acme", entity_type |-> "project",
                         is_active |-> TRUE, is_default |-> FALSE],
      plan_import   |-> [tenant |-> "acme", entity_type |-> "project",
                         is_active |-> TRUE, is_default |-> FALSE] ]

Workflows == DOMAIN WorkflowDefinition

\* display_order gives the order of `states.filter(...).first()`
WorkflowState ==
    [ DRAFT    |-> [workflow |-> "plan_approval", state_type |-> "initial",
                    display_order |-> 0],
      PENDING  |-> [workflow |-> "plan_approval", state_type |-> "intermediate",
                    display_order |-> 1],
      LIVE     |-> [workflow |-> "plan_approval", state_type |-> "final",
                    display_order |-> 2],
      L_OPEN   |-> [workflow |-> "plan_legacy", state_type |-> "intermediate",
                    display_order |-> 0],
      L_CLOSED |-> [workflow |-> "plan_legacy", state_type |-> "final",
                    display_order |-> 1],
      I_UPLOAD |-> [workflow |-> "plan_import", state_type |-> "initial",
                    display_order |-> 0],
      I_MANUAL |-> [workflow |-> "plan_import", state_type |-> "initial",
                    display_order |-> 1] ]

States == DOMAIN WorkflowState

WorkflowTransition ==
    [ submit     |-> [workflow |-> "plan_approval", from_state |-> "DRAFT",
                      to_state |-> "PENDING", allowed_groups |-> {},
                      requires_approval |-> FALSE],
      publish    |-> [workflow |-> "plan_approval", from_state |-> "PENDING",
                      to_state |-> "LIVE", allowed_groups |-> {"managers"},
                      requires_approval |-> TRUE],
      reopen     |-> [workflow |-> "plan_approval", from_state |-> "LIVE",
                      to_state |-> "DRAFT", allowed_groups |-> {},
                      requires_approval |-> FALSE],
      l_close    |-> [workflow |-> "plan_legacy", from_state |-> "L_OPEN",
                      to_state |-> "L_CLOSED", allowed_groups |-> {},
                      requires_approval |-> FALSE],
      i_review   |-> [workflow |-> "plan_import", from_state |-> "I_UPLOAD",
                      to_state |-> "PENDING", allowed_groups |-> {},
                      requires_approval |-> FALSE] ]

Transitions == DOMAIN WorkflowTransition

\* the owning entities: projects, whose status field defaults to 'draft'
Entities == {"project1", "project2"}

\* the tenant an entity belongs to; globex has no workflow definition
entity_tenant(e) == IF e = "project1" THEN "acme" ELSE "globex"

\* content_type.model of the entity
entity_type(e) == "project"

----------------------------------------------------------------------------
(* Error messages of the services and views *)

Ok == "ok"
InvalidTransition == "Transition not available from current state"
Unauthorized == "User does not have permission for this transition"
ApprovalPending == "Approval is pending for this transition"
NoDefaultWorkflow == "No default workflow found for entity type"
NoInitialState == "No initial state defined for workflow"
TransitionDoesNotRequireApproval == "This transition does not require approval"
NotPending == "This approval request is no longer pending"
RespondUnauthorized == "You are not authorized to respond to this request"
AlreadyResponded == "You have already responded to this request"
CancelNotPending == "Only pending requests can be cancelled"
CancelUnauthorized == "Only the requester can cancel this request"
OnlyPendingCancelled == "Only pending approval requests can be cancelled"
MultipleObjectsReturned == "MultipleObjectsReturned"
IntegrityError == "IntegrityError"
DatabaseError == "DatabaseError"

----------------------------------------------------------------------------
(* Rows *)

NoInstance == [workflow |-> Null, current_state |-> Null, object_id |-> Null,
               is_active |-> FALSE, completed_at |-> FALSE]

NoRequest == [workflow_instance |-> NoId, transition |-> Null,
              status |-> Null, requested_by |-> Null,
              required_approvers |-> {}, required_groups |-> {},
              min_approvals |-> 0, responded_by |-> Null,
              responded_at |-> FALSE, due_date |-> Null]

NoArgs == [approvers |-> {}, groups |-> {}, min_approvals |-> 0,
           due_date |-> Null]

IdleLoc == [op |-> Null, user |-> Null, entity |-> Null,
            workflow_definition |-> Null,
            inst |-> NoId, workflow_instance |-> NoInstance,
            req |-> NoId, approval_request |-> NoRequest,
            transition |-> Null, is_approved |-> FALSE, args |-> NoArgs]

NoCall == [op |-> Null, outcome |-> Null, ret |-> NoId, created |-> FALSE]

\* created: the row the call returns was inserted by the call
Call(op, outcome, ret, created) ==
    [op |-> op, outcome |-> outcome, ret |-> ret, created |-> created]

\* rows a call of op can add to instances, history, requests and responses
NewRows(op) ==
    IF op = "respond" THEN 2
    ELSE IF op \in {"get_or_create", "execute_transition", "request_approval"} THEN 1
    ELSE 0

\* the handler p returns: its local objects are dropped
Return(p, outcome, ret) ==
    /\ pc' = [pc EXCEPT ![p] = "idle"]
    /\ loc' = [loc EXCEPT ![p] = IdleLoc]
    /\ lastCall' = Call(loc[p].op, outcome, ret,
                        outcome = Ok /\ NewRows(loc[p].op) > 0)

\* the handler p moves on; lastCall is forgotten when a new call begins
Goto(p, label, newloc) ==
    /\ pc' = [pc EXCEPT ![p] = label]
    /\ loc' = [loc EXCEPT ![p] = newloc]
    /\ lastCall' = IF pc[p] = "idle" THEN NoCall ELSE lastCall

RECURSIVE Notify(_, _)
\* the notifications table with the rows of the sequence ns added
Notify(B, ns) ==
    IF ns = <<>> THEN B ELSE Notify(B (+) SetToBag({Head(ns)}), Tail(ns))

\* a call that fails or returns in its first step
Immediate(op, outcome, ret) ==
    /\ UNCHANGED <<pc, loc>>
    /\ lastCall' = Call(op, outcome, ret, FALSE)

RECURSIVE Reserved(_)
\* rows the calls in progress of the handlers P can still add
Reserved(P) ==
    IF P = {} THEN 0
    ELSE LET p == CHOOSE q \in P : TRUE
         IN  (IF pc[p] = "idle" THEN 0 ELSE NewRows(loc[p].op)) + Reserved(P \ {p})

\* a call of op begins only if the tables have room for its rows
HasRoom(op) ==
    Len(instances) + Len(history) + Len(requests) + Cardinality(responses)
        + Reserved(Procs) + NewRows(op) <= MaxRows

----------------------------------------------------------------------------
Init ==
    /\ instances = <<>>
    /\ history = <<>>
    /\ requests = <<>>
    /\ responses = {}
    /\ notifications = EmptyBag
    /\ entityStatus = [e \in Entities |-> "draft"]
    /\ auditLog = <<>>
    /\ budgetChangeLog = <<>>
    /\ is_default = [w \in Workflows |-> WorkflowDefinition[w].is_default]
    /\ pc = [p \in Procs |-> "idle"]
    /\ loc = [p \in Procs |-> IdleLoc]
    /\ lastCall = NoCall

----------------------------------------------------------------------------
(* get_or_create_workflow_instance(entity, workflow_definition=None) *)

ActiveInstances(e) ==
    {i \in DOMAIN instances :
        instances[i].object_id = e /\ instances[i].is_active}

\* WorkflowDefinition.objects.filter(entity_type, is_active, is_default).first()
DefaultDefinitions(e) ==
    {w \in Workflows :
        /\ WorkflowDefinition[w].entity_type = entity_type(e)
        /\ WorkflowDefinition[w].is_active
        /\ is_default[w]}

\* workflow_definition.states.filter(state_type='initial')
InitialStates(w) ==
    {s \in States : WorkflowState[s].workflow = w
                    /\ WorkflowState[s].state_type = "initial"}

\* .first() under Meta.ordering ['workflow', 'display_order']
FirstState(S) ==
    CHOOSE s \in S : \A o \in S :
        WorkflowState[s].display_order <= WorkflowState[o].display_order

get_or_create_lookup(p, e, w) ==
    /\ pc[p] = "idle"
    /\ HasRoom("get_or_create")
    /\ LET l == [IdleLoc EXCEPT !.op = "get_or_create", !.entity = e,
                                !.workflow_definition = w]
           found == ActiveInstances(e)
       IN  /\ UNCHANGED db
           /\ IF Cardinality(found) = 1
              THEN Immediate("get_or_create", Ok, CHOOSE i \in found : TRUE)
              ELSE IF Cardinality(found) > 1
              THEN Immediate("get_or_create", MultipleObjectsReturned, NoId)
              ELSE Goto(p, "goc_create", l)

get_or_create_create(p) ==
    /\ pc[p] = "goc_create"
    /\ LET e == loc[p].entity
           given == loc[p].workflow_definition
           defaults == DefaultDefinitions(e)
           w == IF given # Null THEN given
                ELSE IF defaults = {} THEN Null
                ELSE CHOOSE d \in defaults : TRUE
       IN  IF w = Null
           THEN /\ UNCHANGED db
                /\ Return(p, NoDefaultWorkflow, NoId)
           ELSE IF InitialStates(w) = {}
           THEN /\ UNCHANGED db
                /\ Return(p, NoInitialState, NoId)
           ELSE /\ instances' = Append(instances,
                      [workflow |-> w,
                       current_state |-> FirstState(InitialStates(w)),
                       object_id |-> e,
                       is_active |-> TRUE,
                       completed_at |-> FALSE])
                /\ UNCHANGED <<history, requests, responses, notifications,
                               entityStatus, auditLog, budgetChangeLog, is_default>>
                /\ Return(p, Ok, Len(instances) + 1)

----------------------------------------------------------------------------
(* can_transition / execute_transition / update_entity_status *)

PendingRequests(i, t) ==
    {r \in DOMAIN requests :
        /\ requests[r].workflow_instance = i
        /\ requests[r].transition = t
        /\ requests[r].status = "pending"}

\* can_transition with the pending-approval check made before the permission
\* check
can_transition_approval_first(wi, i, t, u) ==
    IF WorkflowTransition[t].from_state # wi.current_state
    THEN InvalidTransition
    ELSE IF /\ WorkflowTransition[t].requires_approval
            /\ PendingRequests(i, t) # {}
    THEN ApprovalPending
    ELSE IF /\ ~is_superuser(u)
            /\ WorkflowTransition[t].allowed_groups # {}
            /\ WorkflowTransition[t].allowed_groups \cap user_groups(u) = {}
    THEN Unauthorized
    ELSE Ok

\* can_transition with the permission check made before the state check
can_transition_permission_first(wi, i, t, u) ==
    IF /\ ~is_superuser(u)
       /\ WorkflowTransition[t].allowed_groups # {}
       /\ WorkflowTransition[t].allowed_groups \cap user_groups(u) = {}
    THEN Unauthorized
    ELSE IF WorkflowTransition[t].from_state # wi.current_state
    THEN InvalidTransition
    ELSE IF /\ WorkflowTransition[t].requires_approval
            /\ PendingRequests(i, t) # {}
    THEN ApprovalPending
    ELSE Ok

\* wi is the caller's WorkflowInstance object (row i as the caller loaded it)
can_transition(wi, i, t, u) ==
    IF WorkflowTransition[t].from_state # wi.current_state
    THEN InvalidTransition
    ELSE IF /\ ~is_superuser(u)
            /\ WorkflowTransition[t].allowed_groups # {}
            /\ WorkflowTransition[t].allowed_groups \cap user_groups(u) = {}
    THEN Unauthorized
    ELSE IF /\ WorkflowTransition[t].requires_approval
            /\ PendingRequests(i, t) # {}
    THEN ApprovalPending
    ELSE Ok

IsFinal(s) == WorkflowState[s].state_type = "final"

\* the instance object after execute_transition's two saves
TransitionedInstance(wi, t) ==
    LET to == WorkflowTransition[t].to_state
    IN  [wi EXCEPT !.current_state = to,
                   !.is_active = IF IsFinal(to) THEN FALSE ELSE wi.is_active,
                   !.completed_at = IF IsFinal(to) THEN TRUE ELSE wi.completed_at]

\* the entity is given the code of the state the instance object is in
update_entity_status_current(wi, to) ==
    entityStatus' = [entityStatus EXCEPT ![wi.object_id] = wi.current_state]

\* entity.status = new_state.code; entity.save(update_fields=['status'])
update_entity_status(wi, to) ==
    entityStatus' = [entityStatus EXCEPT ![wi.object_id] = to]

\* post_save of WorkflowHistory: a notification to the performer
on_workflow_state_change(h) ==
    [user |-> h.performed_by, notification_type |-> "state_changed",
     workflow_instance |-> h.instance, approval_request |-> NoId]

\* the writes of a successful execute_transition, committed together;
\* after are the notifications the caller creates right after the commit
execute_transition(wi, i, t, u, comment, after) ==
    LET h == [instance |-> i, transition |-> t,
              from_state |-> wi.current_state,
              to_state |-> WorkflowTransition[t].to_state,
              performed_by |-> u, comment |-> comment]
    IN  /\ history' = Append(history, h)
        /\ notifications' =
               Notify(notifications, <<on_workflow_state_change(h)>> \o after)
        /\ instances' = [instances EXCEPT ![i] = TransitionedInstance(wi, t)]
        /\ update_entity_status(wi, WorkflowTransition[t].to_state)

\* the tables execute_transition writes
ExecuteTables ==
    [history |-> history, notifications |-> notifications,
     instances |-> instances, entityStatus |-> entityStatus]

\* the tables after the first k writes of execute_transition: the history row,
\* the notification of its post_save signal, the instance, the entity status
execute_transition_writes(wi, i, t, u, comment, k) ==
    LET h == [instance |-> i, transition |-> t,
              from_state |-> wi.current_state,
              to_state |-> WorkflowTransition[t].to_state,
              performed_by |-> u, comment |-> comment]
    IN  [history |-> IF k >= 1 THEN Append(history, h) ELSE history,
         notifications |->
             IF k >= 2 THEN Notify(notifications, <<on_workflow_state_change(h)>>)
             ELSE notifications,
         instances |->
             IF k >= 3 THEN [instances EXCEPT ![i] = TransitionedInstance(wi, t)]
             ELSE instances,
         entityStatus |->
             IF k >= 4
             THEN [entityStatus EXCEPT ![wi.object_id] = WorkflowTransition[t].to_state]
             ELSE entityStatus]

\* a block whose writes are committed one by one, whatever happens later
transaction_autocommit(before, after, raised) == after

\* @transaction.atomic: an exception raised in the block rolls its writes back
transaction_atomic(before, after, raised) ==
    IF raised THEN before ELSE after

\* execute_transition passes validation and then one of its writes raises,
\* after k of them were made
execute_transition_raises(wi, i, t, u, comment, k) ==
    LET stored == transaction_atomic(ExecuteTables,
                      execute_transition_writes(wi, i, t, u, comment, k), TRUE)
    IN  /\ history' = stored.history
        /\ notifications' = stored.notifications
        /\ instances' = stored.instances
        /\ entityStatus' = stored.entityStatus

(* WorkflowInstanceViewSet.execute_transition *)

\* instance = self.get_object()
execute_transition_load(p, u, i, t) ==
    /\ pc[p] = "idle"
    /\ i \in DOMAIN instances
    /\ HasRoom("execute_transition")
    /\ UNCHANGED db
    /\ Goto(p, "et_exec", [IdleLoc EXCEPT !.op = "execute_transition",
                              !.user = u, !.inst = i,
                              !.workflow_instance = instances[i],
                              !.transition = t])

\* services.execute_transition(instance, transition, request.user)
execute_transition_run(p) ==
    /\ pc[p] = "et_exec"
    /\ LET l == loc[p]
           reason == can_transition(l.workflow_instance, l.inst, l.transition, l.user)
       IN  IF reason # Ok
           THEN /\ UNCHANGED db
                /\ Return(p, reason, NoId)
           ELSE /\ execute_transition(l.workflow_instance, l.inst, l.transition,
                                      l.user, "", <<>>)
                /\ UNCHANGED <<requests, responses, auditLog, budgetChangeLog, is_default>>
                /\ Return(p, Ok, Len(history) + 1)

\* services.execute_transition raises something other than WorkflowError:
\* the view does not catch it
execute_transition_fail(p) ==
    /\ pc[p] = "et_exec"
    /\ LET l == loc[p]
       IN  /\ can_transition(l.workflow_instance, l.inst, l.transition, l.user) = Ok
           /\ \E k \in 0..3 :
                  execute_transition_raises(l.workflow_instance, l.inst,
                                            l.transition, l.user, "", k)
           /\ UNCHANGED <<requests, responses, auditLog, budgetChangeLog, is_default>>
           /\ Return(p, DatabaseError, NoId)

----------------------------------------------------------------------------
(* request_approval *)

\* what callers pass as (approvers, groups, min_approvals, due_date)
RequestApprovalInputs ==
    { [approvers |-> {"alice"}, groups |-> {}, min_approvals |-> 0,
       due_date |-> Null],
      [approvers |-> {"alice"}, groups |-> {}, min_approvals |-> 1,
       due_date |-> Null],
      [approvers |-> {"bob"}, groups |-> {"managers"}, min_approvals |-> 2,
       due_date |-> "friday"] }

Requesters == {"alice"}

RECURSIVE SetToSeq(_)
SetToSeq(S) ==
    IF S = {} THEN <<>>
    ELSE LET x == CHOOSE y \in S : TRUE IN <<x>> \o SetToSeq(S \ {x})

\* post_save of ApprovalRequest (created): one notification for every user of
\* required_approvers as stored when the signal runs
on_approval_request_created(r, ar, approvers) ==
    LET us == SetToSeq(approvers)
    IN  [k \in 1..Len(us) |->
            [user |-> us[k], notification_type |-> "approval_required",
             workflow_instance |-> ar.workflow_instance,
             approval_request |-> r]]

\* the lookup of request_approval made for approved requests
ExistingRequests_approved(i, t) ==
    {r \in DOMAIN requests :
        /\ requests[r].workflow_instance = i
        /\ requests[r].transition = t
        /\ requests[r].status = "approved"}

\* ApprovalRequest.objects.filter(workflow_instance, transition, status='pending')
ExistingRequests(i, t) ==
    {r \in DOMAIN requests :
        /\ requests[r].workflow_instance = i
        /\ requests[r].transition = t
        /\ requests[r].status = "pending"}

\* .first() under Meta.ordering ['-created_at']: the newest row
FirstRequest(S) == CHOOSE r \in S : \A o \in S : o <= r

request_approval_check(p, u, i, t, args) ==
    /\ pc[p] = "idle"
    /\ i \in DOMAIN instances
    /\ HasRoom("request_approval")
    /\ UNCHANGED db
    /\ IF ~WorkflowTransition[t].requires_approval
       THEN Immediate("request_approval", TransitionDoesNotRequireApproval, NoId)
       ELSE IF ExistingRequests(i, t) # {}
       THEN Immediate("request_approval", Ok, FirstRequest(ExistingRequests(i, t)))
       ELSE Goto(p, "ra_create", [IdleLoc EXCEPT !.op = "request_approval",
                                     !.user = u, !.inst = i, !.transition = t,
                                     !.args = args])

\* ApprovalRequest.objects.create fires post_save before required_approvers
\* and required_groups are set; the transaction commits all of it together
request_approval_create(p) ==
    /\ pc[p] = "ra_create"
    /\ LET l == loc[p]
           r == Len(requests) + 1
           created == [workflow_instance |-> l.inst, transition |-> l.transition,
                       status |-> "pending", requested_by |-> l.user,
                       required_approvers |-> {}, required_groups |-> {},
                       min_approvals |-> l.args.min_approvals,
                       responded_by |-> Null, responded_at |-> FALSE,
                       due_date |-> l.args.due_date]
       IN  /\ requests' = Append(requests,
                  [created EXCEPT !.required_approvers = l.args.approvers,
                                  !.required_groups = l.args.groups])
           /\ notifications' = Notify(notifications,
                  on_approval_request_created(r, created, created.required_approvers))
           /\ UNCHANGED <<instances, history, responses, entityStatus, auditLog, budgetChangeLog, is_default>>
           /\ Return(p, Ok, r)

----------------------------------------------------------------------------
(* ApprovalRequestViewSet.respond and the post_save signal of ApprovalResponse *)

HasResponded(r, u) ==
    \E x \in responses : x.approval_request = r /\ x.user = u

approval_count(r) ==
    Cardinality({x \in responses : x.approval_request = r /\ x.is_approved})

rejection_count(r) ==
    Cardinality({x \in responses : x.approval_request = r /\ ~x.is_approved})

\* ar is the caller's ApprovalRequest object
is_fully_approved(r, ar) == approval_count(r) >= ar.min_approvals

\* can_respond asking for all of the required groups instead of one of them
can_respond_all_groups(ar, u) ==
    \/ u \in ar.required_approvers
    \/ ar.required_groups \subseteq user_groups(u)
    \/ is_superuser(u)

can_respond(ar, u) ==
    \/ u \in ar.required_approvers
    \/ ar.required_groups \cap user_groups(u) # {}
    \/ is_superuser(u)

\* approval_request = self.get_object(), with its workflow_instance
\* (select_related); then the status check on the loaded object
respond_load(p, u, r, a) ==
    /\ pc[p] = "idle"
    /\ r \in DOMAIN requests
    /\ HasRoom("respond")
    /\ UNCHANGED db
    /\ IF requests[r].status # "pending"
       THEN Immediate("respond", NotPending, NoId)
       ELSE Goto(p, "r_check", [IdleLoc EXCEPT !.op = "respond", !.user = u,
                    !.req = r, !.approval_request = requests[r],
                    !.inst = requests[r].workflow_instance,
                    !.workflow_instance = instances[requests[r].workflow_instance],
                    !.transition = requests[r].transition,
                    !.is_approved = a])

\* can_respond and the already-responded query
respond_check(p) ==
    /\ pc[p] = "r_check"
    /\ UNCHANGED db
    /\ IF ~can_respond(requests[loc[p].req], loc[p].user)
       THEN Return(p, RespondUnauthorized, NoId)
       ELSE IF HasResponded(loc[p].req, loc[p].user)
       THEN Return(p, AlreadyResponded, NoId)
       ELSE Goto(p, "r_create", loc[p])

\* ApprovalResponse.objects.create without the unique_together constraint
respond_create_unconstrained(p) ==
    /\ pc[p] = "r_create"
    /\ responses' = responses \cup
           {[approval_request |-> loc[p].req, user |-> loc[p].user,
             is_approved |-> loc[p].is_approved]}
    /\ UNCHANGED <<instances, history, requests, notifications,
                   entityStatus, auditLog, budgetChangeLog, is_default>>
    /\ Goto(p, "r_signal", loc[p])

\* ApprovalResponse.objects.create: unique_together (approval_request, user)
respond_create(p) ==
    /\ pc[p] = "r_create"
    /\ IF HasResponded(loc[p].req, loc[p].user)
       THEN /\ UNCHANGED db
            /\ Return(p, IntegrityError, NoId)
       ELSE /\ responses' = responses \cup
                   {[approval_request |-> loc[p].req, user |-> loc[p].user,
                     is_approved |-> loc[p].is_approved]}
            /\ UNCHANGED <<instances, history, requests, notifications,
                           entityStatus, auditLog, budgetChangeLog, is_default>>
            /\ Goto(p, "r_signal", loc[p])

\* the notification of on_approval_response to the requester
RequesterNotification(l) ==
    IF l.approval_request.requested_by = Null THEN <<>>
    ELSE << [user |-> l.approval_request.requested_by,
             notification_type |-> IF l.is_approved THEN "approval_received"
                                   ELSE "rejection_received",
             workflow_instance |-> l.inst, approval_request |-> l.req] >>

\* on_approval_response: the count query and the check of the loaded status;
\* if both pass the request object is saved as approved
respond_signal(p) ==
    /\ pc[p] = "r_signal"
    /\ LET l == loc[p]
           approved == [l.approval_request EXCEPT !.status = "approved",
                                                  !.responded_by = l.user,
                                                  !.responded_at = TRUE]
       IN  IF is_fully_approved(l.req, l.approval_request)
              /\ l.approval_request.status = "pending"
           THEN /\ requests' = [requests EXCEPT ![l.req] = approved]
                /\ UNCHANGED <<instances, history, responses, notifications,
                               entityStatus, auditLog, budgetChangeLog, is_default>>
                /\ Goto(p, "r_exec", [l EXCEPT !.approval_request = approved])
           ELSE /\ notifications' = Notify(notifications, RequesterNotification(l))
                /\ UNCHANGED <<instances, history, requests, responses,
                               entityStatus, auditLog, budgetChangeLog, is_default>>
                /\ IF l.is_approved THEN Return(p, Ok, loc[p].req)
                   ELSE Goto(p, "r_reject", l)

\* comment=f'Auto-approved after {approval_request.approval_count} approvals'
AutoApproved(n) == "Auto-approved after " \o ToString(n) \o " approvals"

\* on_approval_response: execute_transition on the request's instance object;
\* a WorkflowError leaves the signal and the view
respond_exec(p) ==
    /\ pc[p] = "r_exec"
    /\ LET l == loc[p]
           reason == can_transition(l.workflow_instance, l.inst, l.transition, l.user)
       IN  IF reason # Ok
           THEN /\ UNCHANGED db
                /\ Return(p, reason, NoId)
           ELSE /\ execute_transition(l.workflow_instance, l.inst, l.transition,
                                      l.user, AutoApproved(approval_count(l.req)),
                                      RequesterNotification(l))
                /\ UNCHANGED <<requests, responses, auditLog, budgetChangeLog, is_default>>
                /\ IF l.is_approved THEN Return(p, Ok, loc[p].req)
                   ELSE Goto(p, "r_reject", l)

\* on_approval_response: execute_transition raises something other than
\* WorkflowError, which leaves the signal and the view as well
respond_exec_fail(p) ==
    /\ pc[p] = "r_exec"
    /\ LET l == loc[p]
       IN  /\ can_transition(l.workflow_instance, l.inst, l.transition, l.user) = Ok
           /\ \E k \in 0..3 :
                  execute_transition_raises(l.workflow_instance, l.inst,
                      l.transition, l.user, AutoApproved(approval_count(l.req)), k)
           /\ UNCHANGED <<requests, responses, auditLog, budgetChangeLog, is_default>>
           /\ Return(p, DatabaseError, NoId)

\* if not response.is_approved: the request object is saved as rejected
respond_reject(p) ==
    /\ pc[p] = "r_reject"
    /\ requests' = [requests EXCEPT ![loc[p].req] =
           [loc[p].approval_request EXCEPT !.status = "rejected",
                                           !.responded_by = loc[p].user,
                                           !.responded_at = TRUE]]
    /\ UNCHANGED <<instances, history, responses, notifications,
                   entityStatus, auditLog, budgetChangeLog, is_default>>
    /\ Return(p, Ok, loc[p].req)

----------------------------------------------------------------------------
(* ApprovalRequestViewSet.cancel *)

cancel_load(p, u, r) ==
    /\ pc[p] = "idle"
    /\ r \in DOMAIN requests
    /\ UNCHANGED db
    /\ IF requests[r].status # "pending"
       THEN Immediate("cancel", CancelNotPending, NoId)
       ELSE IF requests[r].requested_by # u /\ ~is_superuser(u)
       THEN Immediate("cancel", CancelUnauthorized, NoId)
       ELSE Goto(p, "c_save", [IdleLoc EXCEPT !.op = "cancel", !.user = u,
                    !.req = r, !.approval_request = requests[r]])

cancel_save(p) ==
    /\ pc[p] = "c_save"
    /\ requests' = [requests EXCEPT ![loc[p].req] =
           [loc[p].approval_request EXCEPT !.status = "cancelled",
                                           !.responded_by = loc[p].user,
                                           !.responded_at = TRUE]]
    /\ UNCHANGED <<instances, history, responses, notifications,
                   entityStatus, auditLog, budgetChangeLog, is_default>>
    /\ Return(p, Ok, loc[p].req)

----------------------------------------------------------------------------
(* WorkflowDefinitionViewSet.set_default *)

\* workflow = self.get_object()
set_default_load(p, w) ==
    /\ pc[p] = "idle"
    /\ UNCHANGED db
    /\ Goto(p, "sd_unset", [IdleLoc EXCEPT !.op = "set_default",
                                          !.workflow_definition = w])

\* filter(tenant, entity_type, is_default=True).update(is_default=False)
set_default_unset(p) ==
    /\ pc[p] = "sd_unset"
    /\ LET w == loc[p].workflow_definition
       IN  is_default' =
               [o \in Workflows |->
                   IF /\ WorkflowDefinition[o].tenant = WorkflowDefinition[w].tenant
                      /\ WorkflowDefinition[o].entity_type =
                             WorkflowDefinition[w].entity_type
                   THEN FALSE ELSE is_default[o]]
    /\ UNCHANGED <<instances, history, requests, responses, notifications,
                   entityStatus, auditLog, budgetChangeLog>>
    /\ Goto(p, "sd_save", loc[p])

\* workflow.is_default = True; workflow.save()
set_default_save(p) ==
    /\ pc[p] = "sd_save"
    /\ is_default' = [is_default EXCEPT ![loc[p].workflow_definition] = TRUE]
    /\ UNCHANGED <<instances, history, requests, responses, notifications,
                   entityStatus, auditLog, budgetChangeLog>>
    /\ Return(p, Ok, NoId)

----------------------------------------------------------------------------
(* services.cancel_approval_request *)

\* the caller obtains the ApprovalRequest object it passes to the function
cancel_approval_request_load(p, u, r) ==
    /\ pc[p] = "idle"
    /\ r \in DOMAIN requests
    /\ UNCHANGED db
    /\ Goto(p, "cs_run", [IdleLoc EXCEPT !.op = "cancel_approval_request",
                 !.user = u, !.req = r, !.approval_request = requests[r]])

\* the status check on the object, then the object is saved as cancelled
cancel_approval_request(p) ==
    /\ pc[p] = "cs_run"
    /\ IF loc[p].approval_request.status # "pending"
       THEN /\ UNCHANGED db
            /\ Return(p, OnlyPendingCancelled, NoId)
       ELSE /\ requests' = [requests EXCEPT ![loc[p].req] =
                   [loc[p].approval_request EXCEPT !.status = "cancelled",
                                                   !.responded_by = loc[p].user,
                                                   !.responded_at = TRUE]]
            /\ UNCHANGED <<instances, history, responses, notifications,
                           entityStatus, auditLog, budgetChangeLog, is_default>>
            /\ Return(p, Ok, loc[p].req)

----------------------------------------------------------------------------
(* apps/audit/services.py: the audit helpers *)

\* rows of the tables auditLog and budgetChangeLog together
MaxLogRows == 3

\* the audited pricing entities and fee entities
SubcampaignVersions == {"sv1"}
PaymentTypes == {"pt1"}

\* the values in micros the helpers are called with
Micros == {1, 1500000, 1800000}

PricingField == "unit_price_micros"
OverrideReason == "client requested increase"

\* AuditLog.objects.create
log_audit_event(kind, entity_id, action, user, extra_data) ==
    auditLog' = Append(auditLog,
        [entity_type |-> kind, entity_id |-> entity_id,
         action |-> action, created_by |-> user,
         old_state |-> Null, new_state |-> Null, extra_data |-> extra_data])

\* an optional integer: None is the empty set, the value v is {v}
None == {}
Some(v) == {v}

\* BudgetChangeLog.objects.create leaving is_manual_override at its default
log_budget_change_default(kind, entity_id, field_name, new_value_micros, old_value_micros, user, reason, is_manual_override) ==
    budgetChangeLog' = Append(budgetChangeLog,
        [entity_type |-> kind, entity_id |-> entity_id,
         field_name |-> field_name,
         old_value_micros |-> old_value_micros,
         new_value_micros |-> new_value_micros,
         changed_by |-> user, reason |-> reason,
         is_manual_override |-> FALSE])

\* BudgetChangeLog.objects.create; old_value_micros is optional
log_budget_change(kind, entity_id, field_name, new_value_micros, old_value_micros, user, reason, is_manual_override) ==
    budgetChangeLog' = Append(budgetChangeLog,
        [entity_type |-> kind, entity_id |-> entity_id,
         field_name |-> field_name,
         old_value_micros |-> old_value_micros,
         new_value_micros |-> new_value_micros,
         changed_by |-> user, reason |-> reason,
         is_manual_override |-> is_manual_override])

\* a call of an audit helper begins only if the logs have room for its rows
HasLogRoom(n) == Len(auditLog) + Len(budgetChangeLog) + n <= MaxLogRows

\* the arguments of an override helper
OverrideArgs(field_name, calculated, override, reason) ==
    [field_name |-> field_name, calculated |-> calculated,
     override |-> override, reason |-> reason]

\* a direct call of log_budget_change for a change that is no override
log_budget_change_call(p, e, new, old, u) ==
    /\ pc[p] = "idle"
    /\ HasLogRoom(1)
    /\ log_budget_change("subcampaign_version", e, "planned_budget_micros",
                         new, old, u, Null, FALSE)
    /\ UNCHANGED <<instances, history, requests, responses, notifications,
                   entityStatus, auditLog, is_default>>
    /\ Immediate("log_budget_change", Ok, Len(budgetChangeLog) + 1)

\* log_pricing_override: the AuditLog row
log_pricing_override_audit(p, e, c, o, u) ==
    /\ pc[p] = "idle"
    /\ HasLogRoom(2)
    /\ log_audit_event("subcampaign_version", e, "pricing_overridden", u,
                       [field_name |-> PricingField,
                        calculated_value_micros |-> c,
                        override_value_micros |-> o,
                        reason |-> OverrideReason])
    /\ UNCHANGED <<instances, history, requests, responses, notifications,
                   entityStatus, budgetChangeLog, is_default>>
    /\ Goto(p, "po_budget", [IdleLoc EXCEPT !.op = "log_pricing_override",
                 !.user = u, !.entity = e,
                 !.args = OverrideArgs(PricingField, c, o, OverrideReason)])

\* log_pricing_override: the BudgetChangeLog row
log_pricing_override_budget(p) ==
    /\ pc[p] = "po_budget"
    /\ LET l == loc[p]
       IN  log_budget_change("subcampaign_version", l.entity, l.args.field_name,
                             l.args.override, Some(l.args.calculated), l.user,
                             l.args.reason, TRUE)
    /\ UNCHANGED <<instances, history, requests, responses, notifications,
                   entityStatus, auditLog, is_default>>
    /\ Return(p, Ok, Len(budgetChangeLog) + 1)

\* log_pricing_override: the second create raises; the helper runs in no
\* transaction, so the AuditLog row is already committed
log_pricing_override_fail(p) ==
    /\ pc[p] = "po_budget"
    /\ UNCHANGED db
    /\ Return(p, DatabaseError, NoId)

\* log_fee_override: the AuditLog row
log_fee_override_audit(p, e, c, o, u) ==
    /\ pc[p] = "idle"
    /\ HasLogRoom(2)
    /\ log_audit_event("subcampaign_payment_type", e, "fee_overridden", u,
                       [calculated_fee_value |-> c,
                        override_fee_value |-> o,
                        reason |-> OverrideReason])
    /\ UNCHANGED <<instances, history, requests, responses, notifications,
                   entityStatus, budgetChangeLog, is_default>>
    /\ Goto(p, "fo_budget", [IdleLoc EXCEPT !.op = "log_fee_override",
                 !.user = u, !.entity = e,
                 !.args = OverrideArgs("fee_value", c, o, OverrideReason)])

\* log_fee_override: the BudgetChangeLog row
log_fee_override_budget(p) ==
    /\ pc[p] = "fo_budget"
    /\ LET l == loc[p]
       IN  log_budget_change("subcampaign_payment_type", l.entity, "fee_value",
                             l.args.override, Some(l.args.calculated), l.user,
                             l.args.reason, TRUE)
    /\ UNCHANGED <<instances, history, requests, responses, notifications,
                   entityStatus, auditLog, is_default>>
    /\ Return(p, Ok, Len(budgetChangeLog) + 1)

\* log_fee_override: the second create raises after the first is committed
log_fee_override_fail(p) ==
    /\ pc[p] = "fo_budget"
    /\ UNCHANGED db
    /\ Return(p, DatabaseError, NoId)

----------------------------------------------------------------------------
(* apps/audit/models.py: the display values of BudgetChangeLog *)

\* significant bits of a Python float
FloatPrecision == 53

MicrosPerUnit == 1000000

RECURSIVE BitLength(_)
BitLength(n) == IF n = 0 THEN 0 ELSE 1 + BitLength(n \div 2)

\* binary digits taken per step of the division, and the steps taken: the
\* digits cover the leading zeros of 1 / MicrosPerUnit and FloatPrecision more
ChunkBits == 10

ExpansionChunks == 8

RECURSIVE Expansion(_, _, _)
\* the first chunks * ChunkBits binary digits of r / d (for 0 <= r < d), and
\* the remainder left after them
Expansion(r, d, chunks) ==
    IF chunks = 0
    THEN [digits |-> <<>>, remainder |-> r]
    ELSE LET q == (2^ChunkBits * r) \div d
             rest == Expansion((2^ChunkBits * r) % d, d, chunks - 1)
         IN  [digits |-> [j \in 1..ChunkBits |-> (q \div 2^(ChunkBits - j)) % 2]
                             \o rest.digits,
              remainder |-> rest.remainder]

\* one unit in the last place added to the binary digits: the last 0 becomes
\* 1 and the digits after it 0; with no 0 the addition carries out
Increment(digits) ==
    LET zeros == {j \in DOMAIN digits : digits[j] = 0}
        last == CHOOSE j \in zeros : \A i \in zeros : i <= j
    IN  IF zeros = {}
        THEN [digits |-> [j \in DOMAIN digits |-> 0], carry |-> 1]
        ELSE [digits |-> [j \in DOMAIN digits |->
                             IF j < last THEN digits[j]
                             ELSE IF j = last THEN 1 ELSE 0],
              carry |-> 0]

\* v / d of Python for integers v and d > 0: the float nearest to the
\* quotient (ties to even), as its sign, its integer part and the binary
\* digits of its fraction; integer part and fraction hold FloatPrecision
\* significant bits together
true_divide(v, d) ==
    LET a == IF v < 0 THEN -v ELSE v
        whole == a \div d
        ex == Expansion(a % d, d, ExpansionChunks)
        ones == {j \in DOMAIN ex.digits : ex.digits[j] = 1}
        first == CHOOSE j \in ones : \A i \in ones : j <= i
        cut == IF whole > 0 THEN FloatPrecision - BitLength(whole)
               ELSE IF ones = {} THEN 0
               ELSE first + FloatPrecision - 1
        kept == SubSeq(ex.digits, 1, cut)
        half == ex.digits[cut + 1] = 1
        more == \/ \E j \in (cut + 2)..Len(ex.digits) : ex.digits[j] = 1
                \/ ex.remainder # 0
        odd == IF cut = 0 THEN whole % 2 = 1 ELSE kept[cut] = 1
        up == half /\ (more \/ odd)
        inc == Increment(kept)
    IN  [negative |-> v < 0,
         whole |-> IF up THEN whole + inc.carry ELSE whole,
         fraction |-> IF up THEN inc.digits ELSE kept]

\* BudgetChangeLog.old_value
old_value(b) ==
    IF b.old_value_micros # None
    THEN Some(true_divide(CHOOSE v \in b.old_value_micros : TRUE, MicrosPerUnit))
    ELSE None

\* BudgetChangeLog.new_value
new_value(b) == true_divide(b.new_value_micros, MicrosPerUnit)

\* BudgetChangeLog.change_delta_micros
change_delta_micros(b) ==
    IF b.old_value_micros # None
    THEN b.new_value_micros - (CHOOSE v \in b.old_value_micros : TRUE)
    ELSE b.new_value_micros

\* BudgetChangeLog.change_delta
change_delta(b) == true_divide(change_delta_micros(b), MicrosPerUnit)

\* the display values of the BudgetChangeLog row k are read
BudgetChangeLog_display(p, k) ==
    /\ pc[p] = "idle"
    /\ k \in DOMAIN budgetChangeLog
    /\ UNCHANGED db
    /\ Immediate("BudgetChangeLog", Ok,
           [row |-> k,
            old_value |-> old_value(budgetChangeLog[k]),
            new_value |-> new_value(budgetChangeLog[k]),
            change_delta_micros |-> change_delta_micros(budgetChangeLog[k]),
            change_delta |-> change_delta(budgetChangeLog[k])])

----------------------------------------------------------------------------
(* Specifications *)

\* the inputs of the calls: who calls, and with which arguments
Inputs ==
    [entities |-> {"project1"},
     executors |-> Users, requesters |-> Requesters,
     responders |-> {"alice", "bob"}, cancellers |-> {"alice"},
     args |-> {a \in RequestApprovalInputs : a.min_approvals # 1},
     transitions |-> {"submit", "publish", "l_close"},
     requested |-> Transitions,
     workflows |-> {"plan_legacy", Null}]

Step(p, I) ==
    \/ \E e \in I.entities, w \in I.workflows : get_or_create_lookup(p, e, w)
    \/ get_or_create_create(p)
    \/ \E u \in I.executors, i \in 1..MaxRows, t \in I.transitions :
          execute_transition_load(p, u, i, t)
    \/ execute_transition_run(p)
    \/ execute_transition_fail(p)
    \/ \E u \in I.requesters, i \in 1..MaxRows, t \in I.requested,
          args \in I.args : request_approval_check(p, u, i, t, args)
    \/ request_approval_create(p)
    \/ \E u \in I.responders, r \in 1..MaxRows, a \in BOOLEAN :
          respond_load(p, u, r, a)
    \/ respond_check(p)
    \/ respond_create(p)
    \/ respond_signal(p)
    \/ respond_exec(p)
    \/ respond_exec_fail(p)
    \/ respond_reject(p)
    \/ \E u \in I.cancellers, r \in 1..MaxRows : cancel_load(p, u, r)
    \/ cancel_save(p)

\* one API call at a time, served by one handler
SeqNext == Step(CHOOSE p \in Procs : TRUE, Inputs)

SeqSpec == Init /\ [][SeqNext]_vars

\* the inputs of the calls that follow an instance through its states
LifecycleInputs ==
    [entities |-> {"project1"},
     executors |-> Users, requesters |-> Requesters,
     responders |-> {"alice", "bob"}, cancellers |-> {"alice"},
     args |-> {a \in RequestApprovalInputs : a.min_approvals = 1},
     transitions |-> Transitions, requested |-> {"publish"},
     workflows |-> {"plan_legacy", Null}]

LifecycleNext == Step(CHOOSE p \in Procs : TRUE, LifecycleInputs)

\* one API call at a time, over the whole life of an instance
LifecycleSpec == Init /\ [][LifecycleNext]_vars

\* the inputs of the calls that create instances for the entities of every
\* tenant, from every definition
CreationInputs ==
    [entities |-> Entities,
     executors |-> {"alice"}, requesters |-> Requesters,
     responders |-> {"alice"}, cancellers |-> {"alice"},
     args |-> {a \in RequestApprovalInputs : a.min_approvals = 1},
     transitions |-> {"submit", "publish", "i_review"}, requested |-> {"publish"},
     workflows |-> Workflows \cup {Null}]

CreationNext == Step(CHOOSE p \in Procs : TRUE, CreationInputs)

\* one API call at a time, for the entities of every tenant
CreationSpec == Init /\ [][CreationNext]_vars

\* the steps of a direct call of the service function by handler p
Service(p, I) ==
    \/ \E u \in I.callers, r \in 1..MaxRows :
          cancel_approval_request_load(p, u, r)
    \/ cancel_approval_request(p)

\* the inputs of the calls around direct calls of the service function
ServiceInputs ==
    [entities |-> {"project1"},
     executors |-> {"alice"}, requesters |-> Requesters,
     responders |-> {"alice"}, cancellers |-> {"alice", "bob"},
     callers |-> {"alice", "bob"},
     args |-> {a \in RequestApprovalInputs : a.min_approvals = 1},
     transitions |-> {"submit", "publish"}, requested |-> {"publish"},
     workflows |-> {Null}]

\* one call at a time, through the API or directly to the service function
ServiceNext ==
    LET p == CHOOSE q \in Procs : TRUE
    IN  Step(p, ServiceInputs) \/ Service(p, ServiceInputs)

ServiceSpec == Init /\ [][ServiceNext]_vars

\* the steps of a respond call served by handler p
Respond(p, I) ==
    \/ \E u \in I.responders, r \in 1..MaxRows, a \in BOOLEAN :
          respond_load(p, u, r, a)
    \/ respond_check(p)
    \/ respond_create(p)
    \/ respond_signal(p)
    \/ respond_exec(p)
    \/ respond_exec_fail(p)
    \/ respond_reject(p)

\* the inputs of the calls around concurrent responses
RespondInputs ==
    [entities |-> {"project1"},
     executors |-> {"alice"}, requesters |-> Requesters,
     responders |-> {"alice", "bob"}, cancellers |-> {"alice"},
     args |-> {a \in RequestApprovalInputs : a.min_approvals = 2},
     transitions |-> {"submit", "publish"}, requested |-> {"publish"},
     workflows |-> {Null}]

\* one handler serves every kind of call, a second one serves respond calls
\* at the same time
RespondNext ==
    \/ Step("h1", RespondInputs)
    \/ Respond("h2", RespondInputs)

RespondSpec == Init /\ [][RespondNext]_vars

\* the audit helpers, called one at a time
AuditNext ==
    LET p == CHOOSE q \in Procs : TRUE
    IN  \/ \E e \in SubcampaignVersions, new \in Micros,
              old \in {None, Some(1500000)}, u \in {"alice"} :
              log_budget_change_call(p, e, new, old, u)
        \/ \E e \in SubcampaignVersions, c \in Micros, o \in Micros,
              u \in {"alice"} : log_pricing_override_audit(p, e, c, o, u)
        \/ log_pricing_override_budget(p)
        \/ log_pricing_override_fail(p)
        \/ \E e \in PaymentTypes, c \in Micros, o \in Micros,
              u \in {"alice"} : log_fee_override_audit(p, e, c, o, u)
        \/ log_fee_override_budget(p)
        \/ log_fee_override_fail(p)

AuditSpec == Init /\ [][AuditNext]_vars

\* budget changes are recorded and the display values of the rows are read
DisplayNext ==
    LET p == CHOOSE q \in Procs : TRUE
    IN  \/ \E e \in SubcampaignVersions, new \in Micros,
              old \in {None} \cup {Some(m) : m \in Micros}, u \in {"alice"} :
              log_budget_change_call(p, e, new, old, u)
        \/ \E k \in 1..MaxLogRows : BudgetChangeLog_display(p, k)

DisplaySpec == Init /\ [][DisplayNext]_vars

\* the catalog is edited while instances are created: set_default calls and
\* get_or_create calls, served concurrently
CatalogNext ==
    \E p \in Procs :
        \/ \E w \in Workflows : set_default_load(p, w)
        \/ set_default_unset(p)
        \/ set_default_save(p)
        \/ \E e \in Entities : get_or_create_lookup(p, e, Null)
        \/ get_or_create_create(p)

CatalogSpec == Init /\ [][CatalogNext]_vars

\* the inputs of the concurrent calls
ConcurrentInputs ==
    [entities |-> {"project1"},
     executors |-> {"alice"}, requesters |-> Requesters,
     responders |-> {"alice", "root"}, cancellers |-> {"alice"},
     args |-> {a \in RequestApprovalInputs : a.min_approvals = 1},
     transitions |-> {"submit"}, requested |-> {"publish"},
     workflows |-> {Null}]

\* handlers of concurrent API calls, interleaved statement by statement
Next == \E p \in Procs : Step(p, ConcurrentInputs)

Spec == Init /\ [][Next]_vars

----------------------------------------------------------------------------
(* Properties of approval requests and transitions *)

\* no call is in progress
Idle == \A p \in Procs : pc[p] = "idle"

\* the approval requests ever made for transition t of instance i
RequestsFor(i, t) ==
    {r \in DOMAIN requests :
        requests[r].workflow_instance = i /\ requests[r].transition = t}

\* the executions of t on i made by on_approval_response
AutoExecutions(i, t) ==
    {k \in DOMAIN history :
        /\ history[k].instance = i
        /\ history[k].transition = t
        /\ history[k].comment # ""}

\* C1: when concurrent approving responses complete an approval request, its
\* transition is executed once only (where no response rejects, there are
\* never more executions of a transition by approval than requests made for
\* it), and the completed request, unless cancelled, ends approved.
C1_FinalApprovalExecutesOnce ==
    /\ \A i \in DOMAIN instances, t \in Transitions :
           (\A r \in RequestsFor(i, t) : rejection_count(r) = 0)
           => Cardinality(AutoExecutions(i, t)) <= Cardinality(RequestsFor(i, t))
    /\ Idle => \A r \in DOMAIN requests :
           (/\ requests[r].min_approvals >= 1
            /\ approval_count(r) >= requests[r].min_approvals
            /\ rejection_count(r) = 0
            /\ requests[r].status # "cancelled")
           => requests[r].status = "approved"

\* C2: once the status of an approval request is no longer pending, no step of
\* any respond or cancel call changes it.
C2_DecidedStatusIsFinal ==
    [][\A r \in DOMAIN requests :
           requests[r].status # "pending"
           => requests'[r].status = requests[r].status]_vars

\* C3: whatever min_approvals is, a request with a rejecting response recorded
\* is rejected once the call has returned, and its transition is never executed
\* by approval: the executions by approval of a transition are at most the
\* requests for it that have no rejecting response.
C3_RejectionDecides ==
    Idle =>
        /\ \A r \in DOMAIN requests :
               rejection_count(r) > 0 => requests[r].status = "rejected"
        /\ \A i \in DOMAIN instances, t \in Transitions :
               Cardinality(AutoExecutions(i, t)) <=
                   Cardinality({r \in RequestsFor(i, t) : rejection_count(r) = 0})

\* C4: a request is approved only if its transition was executed: between
\* calls, where every request asks for at least one approval, the approved
\* requests for a transition are at most its executions by approval.
C4_ApprovedOnlyIfExecuted ==
    Idle => \A i \in DOMAIN instances, t \in Transitions :
        (\A r \in RequestsFor(i, t) : requests[r].min_approvals >= 1)
        => Cardinality({r \in RequestsFor(i, t) : requests[r].status = "approved"})
               <= Cardinality(AutoExecutions(i, t))

\* C5: every recorded execution of a transition that requires approval has an
\* approved approval request for that instance and transition.
C5_ApprovalBeforeExecution ==
    \A k \in DOMAIN history :
        WorkflowTransition[history[k].transition].requires_approval
        => \E r \in RequestsFor(history[k].instance, history[k].transition) :
               requests[r].status = "approved"

\* C6: with approvals arriving one call after another and no rejection, a
\* request with min_approvals N >= 1 is pending while it has fewer than N
\* approvals; with N approvals it is approved, stamped with responded_by and
\* responded_at, and its transition has been executed exactly once.
C6_NthApprovalCompletes ==
    Idle =>
        /\ \A r \in DOMAIN requests :
               (/\ requests[r].min_approvals >= 1
                /\ rejection_count(r) = 0
                /\ requests[r].status # "cancelled")
               => IF approval_count(r) < requests[r].min_approvals
                  THEN requests[r].status = "pending"
                  ELSE /\ requests[r].status = "approved"
                       /\ requests[r].responded_by # Null
                       /\ requests[r].responded_at
        /\ \A i \in DOMAIN instances, t \in Transitions :
               (\A r \in RequestsFor(i, t) : requests[r].min_approvals >= 1)
               => Cardinality(AutoExecutions(i, t)) =
                      Cardinality({r \in RequestsFor(i, t) :
                          approval_count(r) >= requests[r].min_approvals})

\* C7: under any interleaving of request_approval calls there is at most one
\* pending approval request for an instance and a transition.
C7_OnePendingRequest ==
    \A i \in DOMAIN instances, t \in Transitions :
        Cardinality(PendingRequests(i, t)) <= 1

\* the instance and the transition of request r
RequestPair(r) == <<requests[r].workflow_instance, requests[r].transition>>

\* C8: a request_approval call made right after one that returned request r,
\* for the same instance and transition, never goes on to create a request: it
\* returns r, and it leaves every table (so r's requester, approvers, groups,
\* min_approvals and due date) as it was, whatever arguments it is given.
C8_RepeatedRequestIsIdempotent ==
    [][(lastCall.op = "request_approval" /\ lastCall.outcome = Ok) =>
          /\ \A p \in Procs :
                 (pc[p] = "idle" /\ pc'[p] = "ra_create")
                 => <<loc'[p].inst, loc'[p].transition>> # RequestPair(lastCall.ret)
          /\ (/\ lastCall'.op = "request_approval"
              /\ lastCall'.outcome = Ok
              /\ RequestPair(lastCall'.ret) = RequestPair(lastCall.ret))
             => /\ lastCall'.ret = lastCall.ret
                /\ ~lastCall'.created
                /\ UNCHANGED db]_vars

\* a request_approval call has returned a request that existed before it
C8_ExistingRequestReturned ==
    /\ lastCall.op = "request_approval"
    /\ lastCall.outcome = Ok
    /\ ~lastCall.created
    /\ requests[lastCall.ret].status = "pending"

\* C9: under concurrent get_or_create calls an entity has at most one active
\* workflow instance.
C9_OneActiveInstance ==
    \A e \in Entities : Cardinality(ActiveInstances(e)) <= 1

\* C10: execute_transition on an instance whose current_state is not the
\* transition's from_state fails with InvalidTransition, whoever the actor is,
\* and leaves instances, history, entity status, audit log and notifications
\* unchanged.
C10_WrongStateIsRefused ==
    [][\A p \in Procs :
           (/\ pc[p] \in {"et_exec", "r_exec"}
            /\ pc'[p] # pc[p]
            /\ WorkflowTransition[loc[p].transition].from_state
                   # instances[loc[p].inst].current_state)
           => /\ lastCall' = Call(loc[p].op, InvalidTransition, NoId, FALSE)
              /\ UNCHANGED <<instances, history, entityStatus, auditLog,
                             notifications>>]_vars

\* an execute_transition call has been refused for the state of its instance
C10_RefusedForState ==
    /\ lastCall.op = "execute_transition"
    /\ lastCall.outcome = InvalidTransition
    /\ instances # <<>>

\* C11: execute_transition on an instance with is_active = false fails for
\* every transition and every actor, also for a transition that leaves the
\* instance's final current_state, and leaves the instance, its history and
\* the entity status unchanged.
C11_CompletedInstanceIsFrozen ==
    [][\A p \in Procs :
           (/\ pc[p] \in {"et_exec", "r_exec"}
            /\ pc'[p] # pc[p]
            /\ ~instances[loc[p].inst].is_active)
           => /\ lastCall'.outcome # Ok
              /\ UNCHANGED <<instances, history, entityStatus>>]_vars

\* C14: every instance is inactive exactly when its current_state is a final
\* state, and has completed_at set exactly when it is inactive.
C14_InactiveIffFinal ==
    \A i \in DOMAIN instances :
        /\ ~instances[i].is_active <=> IsFinal(instances[i].current_state)
        /\ instances[i].completed_at <=> ~instances[i].is_active

\* C12: every successful execute_transition adds exactly one AuditLog entry
\* with action state_changed: in every reachable state the state_changed audit
\* entries are as many as the WorkflowHistory rows.
C12_EveryTransitionAudited ==
    Cardinality({k \in DOMAIN auditLog : auditLog[k].action = "state_changed"})
        = Len(history)

\* the history rows of instance i, and the newest row of a set of rows
HistoryOf(i) == {k \in DOMAIN history : history[k].instance = i}

LastRow(K) == CHOOSE k \in K : \A o \in K : o <= k

\* the stored state matches the history: every instance is in the to_state of
\* its newest history row (its initial state if it has none), the entity
\* carries the to_state of the newest row of its instances, and there is one
\* state_changed notification for every history row
HistoryMatchesState ==
    /\ \A i \in DOMAIN instances :
           instances[i].current_state =
               IF HistoryOf(i) = {}
               THEN FirstState(InitialStates(instances[i].workflow))
               ELSE history[LastRow(HistoryOf(i))].to_state
    /\ \A e \in Entities :
           LET K == {k \in DOMAIN history :
                        instances[history[k].instance].object_id = e}
           IN  entityStatus[e] =
                   IF K = {} THEN "draft" ELSE history[LastRow(K)].to_state
    /\ Len(history) =
           BagCardinality([n \in {m \in BagToSet(notifications) :
                                     m.notification_type = "state_changed"}
                             |-> CopiesIn(n, notifications)])

\* C13: execute_transition is all-or-nothing: when one of its writes raises
\* after validation, the stored instances, history, notifications and entity
\* status are those from before the call, and after every step the stored
\* state matches the history (no state update without its history row, no
\* history row without its state update).
C13_ExecuteIsAllOrNothing ==
    [][/\ \A p \in Procs :
              (/\ pc[p] \in {"et_exec", "r_exec"}
               /\ pc'[p] = "idle"
               /\ lastCall'.outcome = DatabaseError)
              => UNCHANGED <<instances, history, notifications, entityStatus>>
       /\ HistoryMatchesState']_vars

\* an execute_transition call has raised in the middle of its writes
C13_RaisedWhileWriting ==
    /\ lastCall.outcome = DatabaseError
    /\ lastCall.op = "execute_transition"
    /\ history # <<>>

\* the instance a step has created, if it created one
Created == Len(instances') = Len(instances) + 1

NewInstance == instances'[Len(instances')]

\* C15: get_or_create for a definition (the default one or the one the caller
\* supplies) creates an instance if and only if exactly one state of the
\* definition is tagged initial, and the instance starts in that state; with
\* no initial state or with several it fails with NoInitialState and creates
\* nothing.
C15_ExactlyOneInitialState ==
    [][\A p \in Procs :
           (pc[p] = "goc_create" /\ pc'[p] = "idle") =>
               LET given == loc[p].workflow_definition
                   W == IF given # Null THEN {given}
                        ELSE DefaultDefinitions(loc[p].entity)
               IN  /\ Created =>
                          /\ Cardinality(InitialStates(NewInstance.workflow)) = 1
                          /\ NewInstance.current_state
                                 \in InitialStates(NewInstance.workflow)
                   /\ (W # {} /\ \A w \in W : Cardinality(InitialStates(w)) # 1)
                          => lastCall'.outcome = NoInitialState /\ ~Created
                   /\ (W # {} /\ \A w \in W : Cardinality(InitialStates(w)) = 1)
                          => lastCall'.outcome = Ok /\ Created]_vars

\* the definitions get_or_create may use for entity e when the caller supplies
\* none: active, default-flagged, of e's entity type and of e's tenant
TenantDefaults(e) ==
    {w \in Workflows :
        /\ WorkflowDefinition[w].is_active
        /\ is_default[w]
        /\ WorkflowDefinition[w].entity_type = entity_type(e)
        /\ WorkflowDefinition[w].tenant = entity_tenant(e)}

\* C16: get_or_create without a caller-supplied definition creates the
\* instance with an active, default-flagged definition of the entity's entity
\* type and of the entity's own tenant; when there is none it fails with
\* NoDefaultWorkflow and creates no instance.
C16_DefaultOfOwnTenant ==
    [][\A p \in Procs :
           (/\ pc[p] = "goc_create"
            /\ pc'[p] = "idle"
            /\ loc[p].workflow_definition = Null) =>
               /\ Created => NewInstance.workflow \in TenantDefaults(loc[p].entity)
               /\ TenantDefaults(loc[p].entity) = {}
                      => lastCall'.outcome = NoDefaultWorkflow /\ ~Created]_vars

\* C17: can_transition returns the first failing check in this order:
\* InvalidTransition when the transition's from_state is not the instance's
\* current_state; otherwise Unauthorized when the actor is no superuser and the
\* allowed groups are non-empty and disjoint from the actor's groups; otherwise
\* ApprovalPending when the transition requires approval and a pending request
\* exists for the instance and the transition; otherwise it lets the
\* transition go ahead.  A refusal changes no table.
C17_ChecksInOrder ==
    [][\A p \in Procs :
           (pc[p] \in {"et_exec", "r_exec"} /\ pc'[p] # pc[p]) =>
               LET l == loc[p]
                   T == WorkflowTransition[l.transition]
                   wrongState == T.from_state # l.workflow_instance.current_state
                   forbidden == /\ ~is_superuser(l.user)
                                /\ T.allowed_groups # {}
                                /\ \A g \in T.allowed_groups : g \notin user_groups(l.user)
                   pending == /\ T.requires_approval
                              /\ \E r \in DOMAIN requests :
                                     /\ requests[r].workflow_instance = l.inst
                                     /\ requests[r].transition = l.transition
                                     /\ requests[r].status = "pending"
                   refused(reason) == /\ lastCall' = Call(l.op, reason, NoId, FALSE)
                                      /\ UNCHANGED db
               IN  IF wrongState THEN refused(InvalidTransition)
                   ELSE IF forbidden THEN refused(Unauthorized)
                   ELSE IF pending THEN refused(ApprovalPending)
                   ELSE lastCall'.outcome \notin
                            {InvalidTransition, Unauthorized, ApprovalPending}]_vars

\* an execute_transition call passed the state and permission checks and was
\* refused for a pending approval
C17_RefusedForPendingApproval ==
    /\ lastCall.op = "execute_transition"
    /\ lastCall.outcome = ApprovalPending

\* at most one ApprovalResponse row for each approval request and user
OneResponsePerUser ==
    \A x, y \in responses :
        (x.approval_request = y.approval_request /\ x.user = y.user) => x = y

\* a respond call that finds a response of its user for its request records
\* nothing, whether it finds it in the already-responded query or through the
\* unique constraint
SecondResponseRecordsNothing ==
    \A p \in Procs :
        /\ (/\ pc[p] = "r_check" /\ pc'[p] # "r_check"
            /\ can_respond(requests[loc[p].req], loc[p].user)
            /\ HasResponded(loc[p].req, loc[p].user)) =>
               /\ lastCall' = Call("respond", AlreadyResponded, NoId, FALSE)
               /\ UNCHANGED db
        /\ (/\ pc[p] = "r_create" /\ pc'[p] # "r_create"
            /\ HasResponded(loc[p].req, loc[p].user)) =>
               /\ lastCall'.outcome # Ok
               /\ UNCHANGED db

\* C18 as stated: there is at most one ApprovalResponse per approval request
\* and user, also when the same user responds twice at the same time, and
\* every respond call of a user who has already responded to the request goes
\* on to the already-responded query and fails there with AlreadyResponded,
\* recording nothing.
C18_SecondResponseIsAlreadyResponded ==
    /\ []OneResponsePerUser
    /\ [][/\ SecondResponseRecordsNothing
          /\ \A p \in Procs, u \in Users, r \in DOMAIN requests, a \in BOOLEAN :
                 (HasResponded(r, u) /\ respond_load(p, u, r, a)) =>
                     pc'[p] = "r_check"]_vars

\* C18 amended: there is at most one ApprovalResponse per approval request and
\* user, also under concurrent calls of the same user.  A respond call of a
\* user who has already responded fails with AlreadyResponded while the
\* request is still pending and with NotPending once the request is decided;
\* either way it records nothing and leaves the counts and the status alone.
C18_SecondResponseIsRefused ==
    /\ []OneResponsePerUser
    /\ [][/\ SecondResponseRecordsNothing
          /\ \A p \in Procs, u \in Users, r \in DOMAIN requests, a \in BOOLEAN :
                 (HasResponded(r, u) /\ respond_load(p, u, r, a)) =>
                     IF requests[r].status = "pending"
                     THEN pc'[p] = "r_check" /\ UNCHANGED db
                     ELSE /\ lastCall' = Call("respond", NotPending, NoId, FALSE)
                          /\ UNCHANGED db]_vars

\* a user who had responded to a pending request responded again and was
\* refused with AlreadyResponded
C18_RefusedAsAlreadyResponded ==
    /\ lastCall = Call("respond", AlreadyResponded, NoId, FALSE)
    /\ \E r \in DOMAIN requests, u \in Users :
           requests[r].status = "pending" /\ HasResponded(r, u)

\* the user is a required approver of request r, or belongs to one of its
\* required groups, or is a superuser
MayRespond(r, u) ==
    \/ u \in requests[r].required_approvers
    \/ \E g \in requests[r].required_groups : g \in user_groups(u)
    \/ is_superuser(u)

\* every recorded response comes from a user who may respond to its request
ResponsesAreAuthorized ==
    \A x \in responses : MayRespond(x.approval_request, x.user)

\* the authorization check of a respond call refuses a user who may not
\* respond, and nothing is written
UnauthorizedIsRefused ==
    \A p \in Procs :
        (/\ pc[p] = "r_check" /\ pc'[p] # "r_check"
         /\ ~MayRespond(loc[p].req, loc[p].user)) =>
            /\ lastCall' = Call("respond", RespondUnauthorized, NoId, FALSE)
            /\ UNCHANGED db

\* C19 as stated: every respond call by a user who is neither a required
\* approver, nor in a required group, nor a superuser reaches the
\* authorization check and fails there with Unauthorized, recording no
\* response and changing no table; every recorded response comes from an
\* authorized user.
C19_UnauthorizedResponseIsUnauthorized ==
    /\ []ResponsesAreAuthorized
    /\ [][/\ UnauthorizedIsRefused
          /\ \A p \in Procs, u \in Users, r \in DOMAIN requests, a \in BOOLEAN :
                 (~MayRespond(r, u) /\ respond_load(p, u, r, a)) =>
                     pc'[p] = "r_check"]_vars

\* C19 amended: a respond call by a user who is neither a required approver,
\* nor in a required group, nor a superuser fails with Unauthorized while the
\* request is pending and with NotPending once the request is decided; either
\* way it records no response and changes no table, and every recorded
\* response comes from an authorized user.
C19_UnauthorizedResponseIsRefused ==
    /\ []ResponsesAreAuthorized
    /\ [][/\ UnauthorizedIsRefused
          /\ \A p \in Procs, u \in Users, r \in DOMAIN requests, a \in BOOLEAN :
                 (~MayRespond(r, u) /\ respond_load(p, u, r, a)) =>
                     IF requests[r].status = "pending"
                     THEN pc'[p] = "r_check" /\ UNCHANGED db
                     ELSE /\ lastCall' = Call("respond", NotPending, NoId, FALSE)
                          /\ UNCHANGED db]_vars

\* a user who may not respond to a pending request was refused as unauthorized
C19_RefusedAsUnauthorized ==
    /\ lastCall = Call("respond", RespondUnauthorized, NoId, FALSE)
    /\ \E r \in DOMAIN requests, u \in Users :
           requests[r].status = "pending" /\ ~MayRespond(r, u)

\* what a cancel of the loaded request ar by user u has to do in the step that
\* decides it: op is the entry point, notPending and unauthorized its errors
CancelContract(op, ar, r, u, notPending, unauthorized) ==
    IF ar.status # "pending"
    THEN /\ lastCall' = Call(op, notPending, NoId, FALSE)
         /\ UNCHANGED db
    ELSE IF ar.requested_by # u /\ ~is_superuser(u)
    THEN /\ lastCall' = Call(op, unauthorized, NoId, FALSE)
         /\ UNCHANGED db
    ELSE /\ lastCall'.outcome \notin {notPending, unauthorized}
         /\ UNCHANGED <<instances, history, entityStatus>>

\* C20: a cancel fails with NotPending when the request is not pending, fails
\* with Unauthorized when the actor is neither the requester nor a superuser,
\* both leaving the request unchanged, and otherwise sets the status to
\* cancelled and executes no transition; this holds for the API action and
\* for the service function.
C20_CancelIsGuarded ==
    [][\A p \in Procs :
           /\ \A u \in Users, r \in DOMAIN requests :
                  cancel_load(p, u, r) =>
                      \/ CancelContract("cancel", requests[r], r, u,
                                        CancelNotPending, CancelUnauthorized)
                      \/ pc'[p] = "c_save" /\ UNCHANGED db
                         /\ requests[r].status = "pending"
                         /\ (requests[r].requested_by = u \/ is_superuser(u))
           /\ (pc[p] = "c_save" /\ pc'[p] # "c_save") =>
                  /\ requests'[loc[p].req].status = "cancelled"
                  /\ UNCHANGED <<instances, history, entityStatus>>
           /\ (pc[p] = "cs_run" /\ pc'[p] # "cs_run") =>
                  /\ CancelContract("cancel_approval_request",
                         loc[p].approval_request, loc[p].req, loc[p].user,
                         OnlyPendingCancelled, CancelUnauthorized)
                  /\ lastCall'.outcome = Ok =>
                         requests'[loc[p].req].status = "cancelled"]_vars

\* the number of notifications tagged approval_required for user u that are
\* linked to request r
ApprovalRequired(r, u) ==
    CopiesIn([user |-> u, notification_type |-> "approval_required",
              workflow_instance |-> requests[r].workflow_instance,
              approval_request |-> r], notifications)

\* C21: every approval request created with the set S of required approvers
\* has, from the call that created it on, exactly one approval_required
\* notification linked to it for each user of S and none for any other user.
C21_OneNotificationPerApprover ==
    \A r \in DOMAIN requests, u \in Users :
        ApprovalRequired(r, u) =
            IF u \in requests[r].required_approvers THEN 1 ELSE 0

\* the number of notifications with the given tag sent to the requester of
\* request r and linked to r
RequesterNotified(r, tag) ==
    CopiesIn([user |-> requests[r].requested_by, notification_type |-> tag,
              workflow_instance |-> requests[r].workflow_instance,
              approval_request |-> r], notifications)

\* C22: once the respond calls have returned, the requester of every request
\* has exactly one approval_received notification for each approving response
\* recorded on the request and one rejection_received notification for each
\* rejecting one, the response that completes the threshold included.
C22_EveryResponseNotifiesRequester ==
    Idle =>
        \A r \in DOMAIN requests :
            requests[r].requested_by # Null =>
                /\ RequesterNotified(r, "approval_received") = approval_count(r)
                /\ RequesterNotified(r, "rejection_received") = rejection_count(r)

\* the history rows of the instances of entity e
EntityRows(e) ==
    {k \in DOMAIN history : instances[history[k].instance].object_id = e}

\* a successful execute_transition, direct or triggered by an approval,
\* leaves the entity with the code of the new current_state of its instance
StatusPushed ==
    \A p \in Procs :
        (/\ pc[p] \in {"et_exec", "r_exec"}
         /\ pc'[p] # pc[p]
         /\ Len(history') = Len(history) + 1) =>
            /\ instances'[loc[p].inst].current_state =
                   WorkflowTransition[loc[p].transition].to_state
            /\ entityStatus'[instances[loc[p].inst].object_id] =
                   instances'[loc[p].inst].current_state

C24_OneDefaultPerTenantAndType ==
    \A w, o \in Workflows :
        (/\ is_default[w] /\ is_default[o]
         /\ WorkflowDefinition[w].tenant = WorkflowDefinition[o].tenant
         /\ WorkflowDefinition[w].entity_type = WorkflowDefinition[o].entity_type)
            => w = o

\* C25: the current_state of every instance is a state of the instance's own
\* workflow definition: get_or_create starts it in one, and no
\* execute_transition moves it to a state of another definition, whatever
\* transition it is given.
C25_StateOfOwnDefinition ==
    \A i \in DOMAIN instances :
        WorkflowState[instances[i].current_state].workflow = instances[i].workflow

\* the AuditLog action and the audited entity type of an override helper
OverrideAction(op) ==
    IF op = "log_pricing_override" THEN "pricing_overridden" ELSE "fee_overridden"

OverrideEntityType(op) ==
    IF op = "log_pricing_override" THEN "subcampaign_version"
    ELSE "subcampaign_payment_type"

\* C26: a call of log_pricing_override with calculated value c, override value
\* o and a reason appends exactly one AuditLog row with action
\* pricing_overridden and, when it returns, exactly one BudgetChangeLog row
\* with old_value_micros = c, new_value_micros = o, is_manual_override = true
\* and that reason, both rows carrying the entity id and the entity type of
\* the call; log_fee_override does the same with action fee_overridden and
\* field_name fee_value.
C26_OverrideWritesOnePair ==
    [][\A p \in Procs :
           /\ (pc[p] = "idle" /\ pc'[p] \in {"po_budget", "fo_budget"}) =>
                  LET l == loc'[p]
                  IN  /\ Len(auditLog') = Len(auditLog) + 1
                      /\ SubSeq(auditLog', 1, Len(auditLog)) = auditLog
                      /\ auditLog'[Len(auditLog')].action = OverrideAction(l.op)
                      /\ auditLog'[Len(auditLog')].entity_id = l.entity
                      /\ auditLog'[Len(auditLog')].entity_type =
                             OverrideEntityType(l.op)
                      /\ auditLog'[Len(auditLog')].extra_data.reason = l.args.reason
                      /\ budgetChangeLog' = budgetChangeLog
           /\ (/\ pc[p] \in {"po_budget", "fo_budget"}
               /\ pc'[p] = "idle"
               /\ lastCall'.outcome = Ok) =>
                  LET l == loc[p]
                      a == auditLog[Len(auditLog)]
                  IN  /\ Len(budgetChangeLog') = Len(budgetChangeLog) + 1
                      /\ SubSeq(budgetChangeLog', 1, Len(budgetChangeLog)) =
                             budgetChangeLog
                      /\ LET b == budgetChangeLog'[Len(budgetChangeLog')]
                         IN  /\ b.old_value_micros = {l.args.calculated}
                             /\ b.new_value_micros = l.args.override
                             /\ b.is_manual_override
                             /\ b.reason = l.args.reason
                             /\ b.entity_id = l.entity
                             /\ b.entity_id = a.entity_id
                             /\ b.entity_type = a.entity_type
                             /\ b.field_name =
                                    IF l.op = "log_fee_override" THEN "fee_value"
                                    ELSE PricingField
                      /\ auditLog' = auditLog
                      /\ a.action = OverrideAction(l.op)]_vars

\* log_pricing_override has returned for calculated 1_500_000 and override
\* 1_800_000 and both rows are there
C26_PricingOverrideLogged ==
    /\ lastCall.op = "log_pricing_override"
    /\ lastCall.outcome = Ok
    /\ \E k \in DOMAIN budgetChangeLog :
           /\ budgetChangeLog[k].old_value_micros = {1500000}
           /\ budgetChangeLog[k].new_value_micros = 1800000
           /\ budgetChangeLog[k].is_manual_override
    /\ \E k \in DOMAIN auditLog : auditLog[k].action = "pricing_overridden"

\* the rows the override helpers wrote for entity e
OverrideAudits(e) ==
    {k \in DOMAIN auditLog :
        /\ auditLog[k].entity_id = e
        /\ auditLog[k].action \in {"pricing_overridden", "fee_overridden"}}

OverrideChanges(e) ==
    {k \in DOMAIN budgetChangeLog :
        /\ budgetChangeLog[k].entity_id = e
        /\ budgetChangeLog[k].is_manual_override}

\* C27: the override helpers write their AuditLog row and their
\* BudgetChangeLog row both or neither: whenever no helper is in the middle
\* of a call, every entity has as many pricing_overridden / fee_overridden
\* AuditLog rows as BudgetChangeLog rows with is_manual_override = true, also
\* after a call whose second write failed.
C27_OverridePairIsAtomic ==
    Idle =>
        \A e \in SubcampaignVersions \cup PaymentTypes :
            Cardinality(OverrideAudits(e)) = Cardinality(OverrideChanges(e))

\* the log after the step is the log before it with rows appended
Extended(log, after) ==
    /\ Len(log) <= Len(after)
    /\ SubSeq(after, 1, Len(log)) = log

\* the call of handler p ends in this step with an error
Fails(p) ==
    /\ pc[p] # "idle"
    /\ pc'[p] = "idle"
    /\ lastCall'.outcome # Ok

\* C28: no operation modifies or removes a WorkflowHistory, ApprovalResponse,
\* AuditLog or BudgetChangeLog row: every step leaves each log as it was with
\* zero or more rows appended, and a call that fails leaves behind no row of
\* its own: no response of a failed respond call, no AuditLog row of a failed
\* override helper.
C28_LogsAreAppendOnly ==
    [][/\ Extended(history, history')
       /\ Extended(auditLog, auditLog')
       /\ Extended(budgetChangeLog, budgetChangeLog')
       /\ responses \subseteq responses'
       /\ \A p \in Procs :
              Fails(p) =>
                  /\ history' = history
                  /\ budgetChangeLog' = budgetChangeLog
                  /\ pc[p] \in {"r_signal", "r_exec", "r_reject"} =>
                         \A x \in responses' :
                             ~(/\ x.approval_request = loc[p].req
                               /\ x.user = loc[p].user)
                  /\ pc[p] \in {"po_budget", "fo_budget"} =>
                         \A k \in DOMAIN auditLog' :
                             auditLog'[k].entity_id # loc[p].entity]_vars

\* the float x is the quotient v / d exactly: its digits are those of the
\* binary expansion of the quotient, and the expansion has no digit after them
IsQuotient(x, v, d) ==
    LET a == IF v < 0 THEN -v ELSE v
        ex == Expansion(a % d, d, ExpansionChunks)
        n == Len(x.fraction)
    IN  /\ x.negative = (v < 0)
        /\ x.whole = a \div d
        /\ n <= Len(ex.digits)
        /\ x.fraction = SubSeq(ex.digits, 1, n)
        /\ \A j \in (n + 1)..Len(ex.digits) : ex.digits[j] = 0
        /\ ex.remainder = 0

\* C29: for every BudgetChangeLog row the display values old_value,
\* new_value and change_delta are the micros values divided by 1_000_000
\* exactly, with no floating-point rounding, and change_delta_micros is
\* new_value_micros minus old_value_micros, or new_value_micros when the old
\* value is absent.
C29_DisplayValuesAreExact ==
    lastCall.op = "BudgetChangeLog" =>
        LET b == budgetChangeLog[lastCall.ret.row]
            shown == lastCall.ret
        IN  /\ b.old_value_micros = None => shown.old_value = None
            /\ \A v \in b.old_value_micros :
                   \A x \in shown.old_value : IsQuotient(x, v, MicrosPerUnit)
            /\ b.old_value_micros # None => shown.old_value # None
            /\ IsQuotient(shown.new_value, b.new_value_micros, MicrosPerUnit)
            /\ shown.change_delta_micros =
                   IF b.old_value_micros = None THEN b.new_value_micros
                   ELSE b.new_value_micros
                            - (CHOOSE v \in b.old_value_micros : TRUE)
            /\ IsQuotient(shown.change_delta, shown.change_delta_micros,
                          MicrosPerUnit)

\* the history rows of instance i, in creation order
HistoryRows(i) == SelectSeq(history, LAMBDA h : h.instance = i)

\* the state instance i was created in
CreatedIn(i) == FirstState(InitialStates(instances[i].workflow))

\* the history rows of instance i are a path from the state it was created in
\* to its current state
IsPath(i) ==
    LET rows == HistoryRows(i)
    IN  /\ rows # <<>> => rows[1].from_state = CreatedIn(i)
        /\ \A k \in 2..Len(rows) : rows[k].from_state = rows[k - 1].to_state
        /\ \A k \in DOMAIN rows :
               /\ rows[k].from_state = WorkflowTransition[rows[k].transition].from_state
               /\ rows[k].to_state = WorkflowTransition[rows[k].transition].to_state
        /\ rows # <<>> => rows[Len(rows)].to_state = instances[i].current_state

\* an execute_transition call succeeds in this step
Executes == Len(history') = Len(history) + 1

\* C30: under any interleaving of execute_transition calls (direct or
\* approval-triggered) the history rows of every instance, in creation order,
\* form a path through its definition from the state the instance was created
\* in to its current_state, and of two concurrent calls made from the same
\* current state at most one succeeds: a call that succeeds leaves from the
\* state the instance is in when the call commits.
C30_HistoryIsAPath ==
    /\ [](\A i \in DOMAIN instances : IsPath(i))
    /\ [][Executes =>
             LET h == history'[Len(history')]
             IN  h.from_state = instances[h.instance].current_state]_vars

====
